---- MODULE Spec2Model ----
(***************************************************************************)
(* Allocation and payment reconciliation core of h2h-backend.              *)
(*                                                                         *)
(* The database tables (Order, Booking, Allocation, Unit, WebhookEvent)    *)
(* are the state.  Request-handling workers run razorpay_webhook, which    *)
(* calls allocate_units_for_booking; every database statement that another *)
(* worker can observe separately is a separate step of the worker.         *)
(* The database is the PostgreSQL one of settings.DATABASES (READ          *)
(* COMMITTED, row locks taken by select_for_update and held to commit).    *)
(***************************************************************************)
EXTENDS Integers, Sequences, FiniteSets, TLC

\* Number of webhook requests received in one behaviour.
MaxDeliveries == 2

\* Absent values: 0 for a missing primary key, "None" for a missing string.
NoId == 0
None == "None"

Max(a, b) == IF a >= b THEN a ELSE b

(***************************************************************************)
(* Catalog rows (Property, UnitType, Unit, Package, Event).  The core only *)
(* reads them.  Property and UnitType ids are numbered in name order, and  *)
(* Unit labels in id order, so that ordering by name is ordering by id.    *)
(* Unit 3 has no category (the field is blank by default).                 *)
(***************************************************************************)
UnitIds == 1..7

Unit ==
  <<[property |-> 1, unit_type |-> 1, category |-> "NORMAL", capacity |-> 2],
    [property |-> 1, unit_type |-> 1, category |-> "NORMAL", capacity |-> 2],
    [property |-> 2, unit_type |-> 2, category |-> "", capacity |-> 4],
    [property |-> 2, unit_type |-> 2, category |-> "LUXURY", capacity |-> 4],
    [property |-> 1, unit_type |-> 1, category |-> "NORMAL", capacity |-> 1],
    [property |-> 1, unit_type |-> 1, category |-> "NORMAL", capacity |-> 1],
    [property |-> 2, unit_type |-> 1, category |-> "NORMAL", capacity |-> 2]>>

\* Package rows.  Package 2 has no allowed_unit_types rows and gets its unit
\* types from PACKAGE_UNITTYPE_MAP by name, and its promo_active flag is
\* off; package 3 has no unit types either way.
\* Package 4 is free of charge; package 5 has a negative price per extra
\* adult, which the IntegerField accepts.  Package 6 has the rules of a
\* family package (two people included, children half price up to 12);
\* package 7 has base_includes 0, which the PositiveSmallIntegerField accepts.
\* half_percent is child_half_multiplier in hundredths.
PackageIds == 1..7

Package ==
  <<[name |-> "Explorer", promo_active |-> TRUE, allowed_unit_types |-> {1, 2}, base_includes |-> 1,
     price_inr |-> 100, extra_price_adult_inr |-> 30,
     child_free_max_age |-> 5, child_half_max_age |-> 15, half_percent |-> 50],
    [name |-> "Swiss", promo_active |-> FALSE, allowed_unit_types |-> {}, base_includes |-> 2,
     price_inr |-> 200, extra_price_adult_inr |-> 0,
     child_free_max_age |-> 5, child_half_max_age |-> 15, half_percent |-> 50],
    [name |-> "Custom", promo_active |-> TRUE, allowed_unit_types |-> {}, base_includes |-> 1,
     price_inr |-> 100, extra_price_adult_inr |-> 30,
     child_free_max_age |-> 5, child_half_max_age |-> 15, half_percent |-> 50],
    [name |-> "Day Visit", promo_active |-> TRUE, allowed_unit_types |-> {1}, base_includes |-> 2,
     price_inr |-> 0, extra_price_adult_inr |-> 0,
     child_free_max_age |-> 5, child_half_max_age |-> 15, half_percent |-> 50],
    [name |-> "Group", promo_active |-> TRUE, allowed_unit_types |-> {1, 2}, base_includes |-> 1,
     price_inr |-> 100, extra_price_adult_inr |-> 0 - 30,
     child_free_max_age |-> 5, child_half_max_age |-> 15, half_percent |-> 50],
    [name |-> "Family", promo_active |-> TRUE, allowed_unit_types |-> {1, 2}, base_includes |-> 2,
     price_inr |-> 10000, extra_price_adult_inr |-> 3000,
     child_free_max_age |-> 5, child_half_max_age |-> 12, half_percent |-> 50],
    [name |-> "Solo", promo_active |-> TRUE, allowed_unit_types |-> {1}, base_includes |-> 0,
     price_inr |-> 100, extra_price_adult_inr |-> 30,
     child_free_max_age |-> 5, child_half_max_age |-> 15, half_percent |-> 50]>>

\* PromoCode rows; live is is_live_today().  clean() rejects a PERCENT
\* value above 100 only where full_clean() is called, save() does not.
PromoIds == 1..6

PromoCode ==
  <<[kind |-> "PERCENT", value |-> 10,  live |-> TRUE],
    [kind |-> "PERCENT", value |-> 100, live |-> TRUE],
    [kind |-> "PERCENT", value |-> 150, live |-> TRUE],
    [kind |-> "FLAT",    value |-> 50,  live |-> TRUE],
    [kind |-> "FLAT",    value |-> 500, live |-> TRUE],
    [kind |-> "FLAT",    value |-> 50,  live |-> FALSE]>>

\* UnitType.name, by id.
UnitTypeName == <<"DOME TENT", "SWISS TENT">>

\* Event rows, by event id.  The second event was closed for booking after
\* its bookings were made.
Event ==
  <<[start_date |-> 10, end_date |-> 12, booking_open |-> TRUE],
    [start_date |-> 20, end_date |-> 23, booking_open |-> FALSE]>>

EventIds == 1..2

OrderIds == 1..3
BookingIds == 1..3

\* Values of Order.razorpay_order_id seen by the model; "rpL" and "rpX" are
\* provider order ids that no local Order starts with.
RpIds == {"rp1", "rp2", "rp3", "rpL", "rpX"}

UNIT_STATUS == {"AVAILABLE", "HOLD", "OCCUPIED", "MAINTENANCE"}
BOOKING_STATUS == {"PENDING_PAYMENT", "PARTIAL", "CONFIRMED", "CANCELLED"}

VARIABLES
  secret,       \* settings.RAZORPAY_WEBHOOK_SECRET ("None" when unset)
  orders,       \* Order rows, by id
  bookings,     \* Booking rows, by id
  allocations,  \* Allocation rows: records [booking, unit, seats]
  unitStatus,   \* Unit.status, by unit id
  log,          \* WebhookEvent rows, in id order
  received,     \* number of webhook requests received so far
  wk,           \* per worker: position in razorpay_webhook and its locals
  traffic       \* the requests that can arrive in this behaviour

vars == <<secret, orders, bookings, allocations, unitStatus, log, received, wk,
          traffic>>

Workers == {1, 2}

(***************************************************************************)
(* allocate_units_for_booking, as operators over the rows it reads.        *)
(***************************************************************************)

\* (package.name or "").strip().lower(), on the names of the catalog.
Lower(name) ==
  CASE name = "Explorer" -> "explorer"
    [] name = "Swiss"    -> "swiss"
    [] name = "Custom"   -> "custom"
    [] name = "Day Visit" -> "day visit"
    [] name = "Group"    -> "group"
    [] name = "Family"   -> "family"
    [] name = "Solo"     -> "solo"
    [] OTHER             -> name

\* PACKAGE_UNITTYPE_MAP.get(key, set())
PACKAGE_UNITTYPE_MAP(key) ==
  CASE key = "room"  -> {"COTTAGE", "HUT"}
    [] key = "swiss" -> {"SWISS TENT"}
    [] key = "tent"  -> {"DOME TENT"}
    [] OTHER         -> {}

\* allowed_ids: the package's allowed_unit_types, else the unit types named
\* by the fallback map.
AllowedIds(pkg) ==
  IF Package[pkg].allowed_unit_types # {}
  THEN Package[pkg].allowed_unit_types
  ELSE {t \in DOMAIN UnitTypeName :
          UnitTypeName[t] \in PACKAGE_UNITTYPE_MAP(Lower(Package[pkg].name))}

\* u.capacity or 1
Cap(u) == IF Unit[u].capacity = 0 THEN 1 ELSE Unit[u].capacity

\* needed = max(1, int(booking.guests or 1))
Needed(b) == Max(1, IF b.guests = 0 THEN 1 ELSE b.guests)

\* pinned_ut = booking.unit_type_id if it is in allowed_ids, else None
PinnedUt(b, allowed) == IF b.unit_type \in allowed THEN b.unit_type ELSE NoId

\* _units_taken_for_event: units with an Allocation of a PENDING_PAYMENT or
\* CONFIRMED booking of the event.
UnitsTakenForEvent(ev) ==
  {u \in UnitIds : \E a \in allocations :
     /\ a.unit = u
     /\ bookings[a.booking].event = ev
     /\ bookings[a.booking].status \in {"PENDING_PAYMENT", "CONFIRMED"}}

\* PoolUnits gone wrong: the query without its status="AVAILABLE" filter.
PoolUnitsAnyStatus(b, allowed, taken) ==
  LET pinned == PinnedUt(b, allowed)
      types  == IF pinned # NoId THEN {pinned} ELSE allowed
  IN {u \in UnitIds : Unit[u].unit_type \in types /\ u \notin taken}

\* PoolUnits gone wrong: the query without its unit_type_id__in filter.
PoolUnitsAnyType(b, allowed, taken) ==
  {u \in UnitIds : unitStatus[u] = "AVAILABLE" /\ u \notin taken}

\* The rows of the select_for_update query: unit type pinned or allowed,
\* status AVAILABLE, not in taken_ids.
PoolUnits(b, allowed, taken) ==
  LET pinned == PinnedUt(b, allowed)
      types  == IF pinned # NoId THEN {pinned} ELSE allowed
  IN {u \in UnitIds : /\ Unit[u].unit_type \in types
                      /\ unitStatus[u] = "AVAILABLE"
                      /\ u \notin taken}

\* order_by: same property first when booking.property is set, then
\* "-capacity", "property__name", "unit_type__name", "label".
OrderKey(u, prop) ==
  <<IF prop # NoId /\ Unit[u].property # prop THEN 1 ELSE 0,
    0 - Unit[u].capacity, Unit[u].property, Unit[u].unit_type, u>>

RECURSIVE LexLess(_, _)
LexLess(s, t) ==
  IF s = <<>> THEN FALSE
  ELSE \/ Head(s) < Head(t)
       \/ Head(s) = Head(t) /\ LexLess(Tail(s), Tail(t))

RECURSIVE SortUnits(_, _)
SortUnits(S, prop) ==
  IF S = {} THEN <<>>
  ELSE LET m == CHOOSE u \in S :
                  \A v \in S \ {u} : LexLess(OrderKey(u, prop), OrderKey(v, prop))
       IN <<m>> \o SortUnits(S \ {m}, prop)

RECURSIVE SumCap(_)
SumCap(units) == IF units = <<>> THEN 0 ELSE Cap(Head(units)) + SumCap(Tail(units))

\* FirstFit gone wrong: the walk stops at the first unit.
FirstUnitOnly(units, needed) ==
  IF units = <<>> THEN <<>> ELSE SubSeq(units, 1, 1)

\* The shortest prefix of units whose capacities reach needed; <<>> if none.
FirstFit(units, needed) ==
  LET ks == {k \in 1..Len(units) : SumCap(SubSeq(units, 1, k)) >= needed}
  IN IF ks = {} THEN <<>>
     ELSE SubSeq(units, 1, CHOOSE k \in ks : \A j \in ks : k <= j)

ClusterOf(u) == <<Unit[u].property, Unit[u].unit_type>>

\* cluster_score(key)
ClusterScore(key, prop, pinned) ==
  (IF prop # NoId /\ key[1] = prop THEN 0 - 2 ELSE 0)
  + (IF pinned # NoId /\ key[2] = pinned THEN 0 - 1 ELSE 0)

\* Position of a cluster in the defaultdict: that of its first unit in pool.
FirstIndex(pool, key) ==
  CHOOSE i \in 1..Len(pool) :
    /\ ClusterOf(pool[i]) = key
    /\ \A j \in 1..(i - 1) : ClusterOf(pool[j]) # key

\* sorted(clusters.items(), key=cluster_score): by score, ties in dict order.
RECURSIVE SortClusters(_, _, _, _)
SortClusters(keys, pool, prop, pinned) ==
  IF keys = {} THEN <<>>
  ELSE LET rank(k) == <<ClusterScore(k, prop, pinned), FirstIndex(pool, k)>>
           m == CHOOSE k \in keys :
                  \A j \in keys \ {k} : LexLess(rank(k), rank(j))
       IN <<m>> \o SortClusters(keys \ {m}, pool, prop, pinned)

ClusterUnits(pool, key) == SelectSeq(pool, LAMBDA u : ClusterOf(u) = key)

\* Decide gone wrong: the single-cluster pass is skipped.
DecideGlobalFirst(b, pool, pinned) ==
  LET picks == FirstFit(pool, Needed(b))
  IN IF picks = <<>>
     THEN [ok |-> FALSE, picks |-> <<>>, property |-> NoId, unit_type |-> NoId]
     ELSE [ok |-> TRUE, picks |-> picks,
           property |-> Unit[picks[1]].property,
           unit_type |-> Unit[picks[1]].unit_type]

\* The decision of allocate_units_for_booking over a locked pool: the picks
\* and the (property, unit_type) slice written to the booking; ok is FALSE
\* where the code raises "Insufficient capacity for requested guests".
Decide(b, pool, pinned) ==
  LET needed == Needed(b)
      keys   == SortClusters({ClusterOf(pool[i]) : i \in 1..Len(pool)},
                             pool, b.property, pinned)
      fits   == {i \in 1..Len(keys) :
                   FirstFit(ClusterUnits(pool, keys[i]), needed) # <<>>}
  IN IF pool = <<>> THEN [ok |-> FALSE, picks |-> <<>>, property |-> NoId,
                          unit_type |-> NoId]
     ELSE IF fits # {}
     THEN LET i == CHOOSE i \in fits : \A j \in fits : i <= j
          IN [ok |-> TRUE,
              picks |-> FirstFit(ClusterUnits(pool, keys[i]), needed),
              property |-> keys[i][1], unit_type |-> keys[i][2]]
     ELSE LET picks == FirstFit(pool, needed)
          IN IF picks = <<>>
             THEN [ok |-> FALSE, picks |-> <<>>, property |-> NoId,
                   unit_type |-> NoId]
             ELSE [ok |-> TRUE, picks |-> picks,
                   property |-> Unit[picks[1]].property,
                   unit_type |-> Unit[picks[1]].unit_type]

(***************************************************************************)
(* _compute_booking_pricing.  Ages are years, -1 for an age that is        *)
(* missing or no integer; companions holds the ages of the companions,     *)
(* guest_ages the ages of the extra guests.                                *)
(***************************************************************************)
Min(a, b) == IF a <= b THEN a ELSE b

\* int(round(x * pct / 100)), Python's round: halves go to the even integer.
RoundPercent(x, pct) ==
  LET n == x * pct
      q == n \div 100
      r == n % 100
  IN IF r < 50 THEN q
     ELSE IF r > 50 THEN q + 1
     ELSE IF q % 2 = 0 THEN q ELSE q + 1

\* Classify gone wrong: a child of free age is charged as a half.
ClassifyFreeAsHalf(age, free_max, half_max) ==
  IF age < 0 THEN "adult"
  ELSE IF age <= half_max THEN "half"
  ELSE "adult"

\* Classify gone wrong: a guest of unknown age is taken for a free child.
ClassifyUnknownAsFree(age, free_max, half_max) ==
  IF age <= free_max THEN "free"
  ELSE IF age <= half_max THEN "half"
  ELSE "adult"

\* _classify(age)
Classify(age, free_max, half_max) ==
  IF age < 0 THEN "adult"
  ELSE IF age <= free_max THEN "free"
  ELSE IF age <= half_max THEN "half"
  ELSE "adult"

RECURSIVE CountClass(_, _, _, _)
CountClass(ages, class, free_max, half_max) ==
  IF ages = <<>> THEN 0
  ELSE (IF Classify(Head(ages), free_max, half_max) = class THEN 1 ELSE 0)
       + CountClass(Tail(ages), class, free_max, half_max)

\* Booking.promo_breakdown of a booking without promo code, and the "promo"
\* entry of a pricing breakdown without one.
NoPromoBreakdown == [promo |-> NoId, discount_inr |-> 0, final_total_inr |-> 0]

\* Booking.pricing_breakdown of a booking that was never priced.
NoBreakdown ==
  [computed_from |-> "none", base_price_inr |-> 0, adult_inr |-> 0,
   child_half_inr |-> 0, adult |-> 0, child_half |-> 0, child_free |-> 0,
   total_inr |-> 0, promo |-> NoPromoBreakdown]

\* Returns total_inr, guests_total and the breakdown: the source of the
\* extras, the unit prices, the extra counts and the total.
ComputeBookingPricing(pkg, b) ==
  LET P == Package[pkg]
      base_includes == IF P.base_includes = 0 THEN 1 ELSE P.base_includes
      base_price == P.price_inr
      extra_adult_price ==
        IF P.extra_price_adult_inr = 0 THEN base_price ELSE P.extra_price_adult_inr
      half_pct == IF P.half_percent = 0 THEN 50 ELSE P.half_percent
      free_max == IF P.child_free_max_age = 0 THEN 5 ELSE P.child_free_max_age
      half_max0 == IF P.child_half_max_age = 0 THEN 15 ELSE P.child_half_max_age
      half_max == IF half_max0 < free_max THEN free_max ELSE half_max0
      used_source == IF b.companions # <<>> THEN "companions"
                     ELSE IF b.guest_ages # <<>> THEN "guest_ages"
                     ELSE "manual_counts"
      everyone == <<0 - 1>> \o b.companions
      adults == CountClass(everyone, "adult", free_max, half_max)
      halfs  == CountClass(everyone, "half", free_max, half_max)
      frees  == CountClass(everyone, "free", free_max, half_max)
      party  == 1 + Len(b.companions)
      base0  == Min(base_includes, party)
      alloc_adults == Min(adults, base0)
      alloc_halfs  == Min(halfs, base0 - alloc_adults)
      alloc_frees  == Min(frees, base0 - alloc_adults - alloc_halfs)
      extra_adults ==
        CASE used_source = "companions" -> Max(0, adults - alloc_adults)
          [] used_source = "guest_ages" ->
               CountClass(b.guest_ages, "adult", free_max, half_max)
          [] OTHER -> b.extra_adults
      child_half ==
        CASE used_source = "companions" -> Max(0, halfs - alloc_halfs)
          [] used_source = "guest_ages" ->
               CountClass(b.guest_ages, "half", free_max, half_max)
          [] OTHER -> b.extra_children_half
      child_free ==
        CASE used_source = "companions" -> Max(0, frees - alloc_frees)
          [] used_source = "guest_ages" ->
               CountClass(b.guest_ages, "free", free_max, half_max)
          [] OTHER -> b.extra_children_free
      extras_total == Max(0, extra_adults + child_half + child_free)
      counted_guests == Max(base_includes + extras_total,
                            IF b.guests = 0 THEN base_includes + extras_total
                            ELSE b.guests)
      child_half_price == RoundPercent(extra_adult_price, half_pct)
      extras_amount == extra_adults * extra_adult_price
                       + child_half * child_half_price
      total_inr == base_price + extras_amount
  IN [total_inr |-> total_inr,
      guests_total |-> IF used_source = "companions" THEN party
                       ELSE counted_guests,
      breakdown |-> [computed_from |-> used_source,
                     base_price_inr |-> base_price,
                     adult_inr |-> extra_adult_price,
                     child_half_inr |-> child_half_price,
                     adult |-> extra_adults, child_half |-> child_half,
                     child_free |-> child_free, total_inr |-> total_inr,
                     promo |-> NoPromoBreakdown]]

(***************************************************************************)
(* _apply_promocode.  promo is a PromoCode id, NoId for no promo code.     *)
(***************************************************************************)
\* int(x * (value / 100.0)): the product truncated towards zero.  On the
\* amounts and values of the catalog the floating-point product truncates
\* to the same integer as the exact one.
TruncPercent(x, value) ==
  LET n == x * value
  IN IF n >= 0 THEN n \div 100 ELSE 0 - ((0 - n) \div 100)

\* ApplyPromocode gone wrong: the discount is not clamped.
ApplyPromocodeUnclamped(total_inr, promo) ==
  IF promo = NoId
  THEN [discount |-> 0, final |-> total_inr, breakdown |-> NoPromoBreakdown]
  ELSE LET discount == IF PromoCode[promo].kind = "PERCENT"
                       THEN TruncPercent(total_inr, PromoCode[promo].value)
                       ELSE PromoCode[promo].value
       IN [discount |-> discount, final |-> total_inr - discount,
           breakdown |-> [promo |-> promo, discount_inr |-> discount,
                          final_total_inr |-> total_inr - discount]]

\* Returns the discount, the final total and the promo breakdown.
ApplyPromocode(total_inr, promo) ==
  IF promo = NoId
  THEN [discount |-> 0, final |-> total_inr, breakdown |-> NoPromoBreakdown]
  ELSE LET raw      == IF PromoCode[promo].kind = "PERCENT"
                       THEN TruncPercent(total_inr, PromoCode[promo].value)
                       ELSE PromoCode[promo].value
           discount == Max(0, Min(raw, Max(0, total_inr - 1)))
       IN [discount |-> discount, final |-> total_inr - discount,
           breakdown |-> [promo |-> promo, discount_inr |-> discount,
                          final_total_inr |-> total_inr - discount]]

\* _get_live_promocode(code), on the id of the row the code names.
GetLivePromocode(code) ==
  IF code # NoId /\ PromoCode[code].live THEN code ELSE NoId

(***************************************************************************)
(* Webhook requests.  A body is the request's bytes: a JSON object with    *)
(* the fields razorpay_webhook reads, a JSON value that is no object, text *)
(* that is no JSON, or bytes that are no UTF-8.                            *)
(*   event     evt["event"]                                                *)
(*   pay_order payload.payment.entity.order_id                             *)
(*   pay_id    payload.payment.entity.id                                   *)
(*   ref       payload.payment_link.entity.reference_id, as the text       *)
(*             before and after the first "-" (prefix "" when absent)      *)
(*   pl_order  payload.payment_link.entity.order_id                        *)
(*   note      payload.payment_link.entity.notes.local_rp_order            *)
(***************************************************************************)
NoRef == [prefix |-> "", tail |-> ""]

Body(kind, event, pay_order, pay_id, ref, pl_order, note) ==
  [kind |-> kind, event |-> event, pay_order |-> pay_order, pay_id |-> pay_id,
   ref |-> ref, pl_order |-> pl_order, note |-> note]

Captured(order_id, pay_id) ==
  Body("object", "payment.captured", order_id, pay_id, NoRef, None, None)

LinkPaid(tail, pay_order, pl_order, note, pay_id) ==
  Body("object", "payment_link.paid", pay_order, pay_id,
       IF tail = None THEN NoRef ELSE [prefix |-> "orderdb", tail |-> tail],
       pl_order, note)

Opaque(kind) == Body(kind, None, None, None, NoRef, None, None)

\* hmac.new(secret, body, sha256).hexdigest(): a digest is determined by the
\* key and the bytes, and differs when either differs.
Hmac(key, body) == <<key, body>>

\* The X-Razorpay-Signature header: "" (here <<>>) when the header is absent.
NoSignature == <<>>

Signed(key, body) == [body |-> body, sig |-> Hmac(key, body)]

\* The requests of a behaviour come from one of two traffic mixes.
\* Payment traffic: notifications for the three orders, one of them also as
\* a payment link notification and one under a forged signature.
PaymentTraffic ==
  { Signed("whsec", Captured("rp1", "payA")),
    Signed("whsec", Captured("rp2", "payB")),
    Signed("whsec", Captured("rp3", "payC")),
    Signed("whsec", LinkPaid("1", None, "rpL", "rp1", "payE")),
    Signed("forged", Captured("rp1", "payA")) }

\* Dispatch traffic: payment link notifications that name orders through
\* different fields, an unknown order, an unhandled event, bodies that are
\* no JSON object, and a request without the signature header.
DispatchTraffic ==
  { Signed("whsec", LinkPaid("1", None, "rpL", "rp1", "payE")),
    Signed("whsec", LinkPaid("1", None, "rp2", None, "payE")),
    Signed("whsec", LinkPaid("9", "rp2", "rp1", "rp3", "payF")),
    Signed("whsec", LinkPaid("x", None, "rp3", "rp1", None)),
    Signed("whsec", LinkPaid(None, None, None, "rp1", "payG")),
    Signed("whsec", Captured("rpX", "payD")),
    Signed("whsec", Body("object", "order.paid", "rp1", "payA", NoRef, None, None)),
    Signed("whsec", Opaque("array")),
    Signed("whsec", Opaque("text")),
    Signed("whsec", Opaque("binary")),
    [body |-> Captured("rp2", "payB"), sig |-> NoSignature] }

\* body.decode("utf-8", errors="replace"): bytes that are no UTF-8 come back
\* with U+FFFD in place of the offending bytes.
DecodeReplace(body) ==
  IF body.kind = "binary" THEN [body EXCEPT !.kind = "replaced"] ELSE body

\* json.loads(body.decode("utf-8")) raises for bytes that are no UTF-8 and
\* for text that is no JSON.
JsonLoadsRaises(body) == body.kind \in {"binary", "text"}

\* int(ref.split("-", 1)[1]): 0 stands for a tail that is no integer.
IntOf(tail) ==
  CASE tail = "1" -> 1 [] tail = "2" -> 2 [] tail = "3" -> 3 [] tail = "9" -> 9
    [] OTHER -> NoId

(***************************************************************************)
(* Rows.                                                                   *)
(***************************************************************************)
NoPrice == 0 - 1
NoDate == 0

\* A PENDING_PAYMENT booking.  genders is primary_gender followed by the
\* gender of each companion.
BookingRow(event, guests, companions, pricing, check_in, check_out) ==
  [event |-> event, status |-> "PENDING_PAYMENT", guests |-> guests,
   companions |-> companions, extra_adults |-> 0, extra_children_half |-> 0,
   extra_children_free |-> 0, property |-> NoId, unit_type |-> NoId,
   category |-> "", check_in |-> check_in, check_out |-> check_out,
   pricing_total_inr |-> pricing, pricing_breakdown |-> NoBreakdown,
   promo_code |-> NoId, promo_discount_inr |-> NoPrice,
   promo_breakdown |-> NoPromoBreakdown,
   guest_ages |-> <<>>,
   genders |-> [i \in 1..(1 + Len(companions)) |-> "O"]]

OrderRow(rp, booking, package) ==
  [razorpay_order_id |-> rp, razorpay_payment_id |-> None, paid |-> FALSE,
   booking |-> booking, package |-> package]

\* The third booking and its order differ between initial databases: a
\* booking of the other event; an order without booking; a booking without
\* event; a package without unit types; a party larger than the only unit
\* its package allows.  in_service are the units whose status is AVAILABLE,
\* the others are in MAINTENANCE.
LinkedScenario ==
  [booking |-> BookingRow(2, 1, <<>>, 100, 20, 23), link |-> 3, package |-> 1,
   in_service |-> {1, 2, 3}]

Scenarios ==
  { LinkedScenario,
    [booking |-> BookingRow(2, 1, <<>>, 100, 20, 23), link |-> NoId, package |-> 1,
     in_service |-> {1, 2, 3}],
    [booking |-> BookingRow(NoId, 1, <<>>, 100, NoDate, NoDate), link |-> 3,
     package |-> 1, in_service |-> {1, 2, 3}],
    [booking |-> BookingRow(2, 1, <<>>, 100, 20, 23), link |-> 3, package |-> 3,
     in_service |-> {1, 2, 3}],
    [booking |-> BookingRow(1, 5, <<>>, 200, 10, 12), link |-> 3, package |-> 2,
     in_service |-> {1, 2, 3}] }

\* Inventory traffic: the notifications of the first and the third order,
\* over initial databases that differ in the third booking and in the units
\* in service.
InventoryTraffic ==
  { Signed("whsec", Captured("rp1", "payA")),
    Signed("whsec", Captured("rp3", "payC")) }

\* A booking that was cancelled before its payment arrived.
CancelledScenario ==
  [booking |-> [BookingRow(2, 1, <<>>, 100, 20, 23) EXCEPT !.status = "CANCELLED"],
   link |-> 3, package |-> 1, in_service |-> {1, 2, 3}]

\* Five men whose package allows the one unit type of units 3 and 4, both
\* of capacity 4; the booking was made for category DELUXE.
TwoFoursScenario ==
  [booking |-> [BookingRow(1, 5, <<30, 30, 30, 30>>, 200, 10, 12)
                  EXCEPT !.genders = <<"M", "M", "M", "M", "M">>,
                         !.category = "DELUXE"],
   link |-> 3, package |-> 2, in_service |-> {3, 4}]

\* A party of five whose booking names property 1, where units 1 and 2 are.
PinnedPropertyScenario ==
  [booking |-> [BookingRow(2, 5, <<>>, 220, 20, 23) EXCEPT !.property = 1],
   link |-> 3, package |-> 1, in_service |-> {1, 2, 3}]

\* A booking that names unit type 1, which its package does not allow, and
\* that has a check-in date but no check-out date.
PinnedTypeScenario ==
  [booking |-> [BookingRow(2, 1, <<>>, 200, 21, NoDate) EXCEPT !.unit_type = 1],
   link |-> 3, package |-> 2, in_service |-> {1, 2, 3}]

\* A party of four over units of capacity 2, 1, 1 in one (property, unit
\* type) and one unit of capacity 2 in another.
FragmentedScenario ==
  [booking |-> BookingRow(2, 4, <<>>, 190, 20, 23), link |-> 3, package |-> 1,
   in_service |-> {1, 5, 6, 7}]

\* A party of two of the first event whose package allows unit type 2 only,
\* with units of type 1 in service in both properties.
SharedEventScenario ==
  [booking |-> BookingRow(1, 2, <<>>, 200, 10, 12), link |-> 3, package |-> 2,
   in_service |-> {1, 2, 3, 7}]

\* A party of four whose booking names unit type 1, which its package
\* allows; the units of that type are in two properties.
AllowedPinScenario ==
  [booking |-> [BookingRow(2, 4, <<>>, 190, 20, 23) EXCEPT !.unit_type = 1],
   link |-> 3, package |-> 1, in_service |-> {1, 3, 7}]

InventoryScenarios ==
  { CancelledScenario, TwoFoursScenario, PinnedPropertyScenario,
    PinnedTypeScenario, FragmentedScenario, SharedEventScenario,
    AllowedPinScenario }

\* Locals of a worker that handles no request.
IdleWorker ==
  [pc |-> "idle", body |-> Opaque("none"), sig |-> NoSignature, logid |-> NoId,
   matched |-> NoId, src |-> 1, osnap |-> OrderRow(None, NoId, NoId),
   bk |-> NoId, b |-> BookingRow(NoId, 0, <<>>, NoPrice, NoDate, NoDate),
   taken |-> {}, pool |-> <<>>, picks |-> <<>>, err |-> <<>>, resp |-> 0]

Init ==
  /\ \/ /\ secret = "whsec"
        /\ traffic \in {PaymentTraffic, DispatchTraffic, InventoryTraffic}
     \/ secret = None /\ traffic = DispatchTraffic
  /\ \E sc \in (IF traffic = PaymentTraffic THEN Scenarios
               ELSE IF traffic = InventoryTraffic THEN InventoryScenarios
               ELSE {LinkedScenario}) :
       /\ bookings = <<BookingRow(1, 3, <<30, 10>>, 145, 11, 12),
                       BookingRow(1, 2, <<>>, NoPrice, NoDate, NoDate),
                       sc.booking>>
       /\ orders = <<OrderRow("rp1", 1, 1), OrderRow("rp2", 2, 1),
                     OrderRow("rp3", sc.link, sc.package)>>
       /\ unitStatus = [u \in UnitIds |-> IF u \in sc.in_service
                                           THEN "AVAILABLE" ELSE "MAINTENANCE"]
  /\ allocations = {}
  /\ log = <<>>
  /\ received = 0
  /\ wk = [w \in Workers |-> IdleWorker]

(***************************************************************************)
(* razorpay_webhook, one action per group of statements that no other      *)
(* worker's statement can separate observably.                             *)
(***************************************************************************)
\* A WebhookEvent row.  created_at and processed_at are the times of the
\* insert and of the last save, measured in requests received so far.
LogRow(event, rq, error, now) ==
  [event |-> event, signature |-> rq.sig, raw_body |-> DecodeReplace(rq.body),
   processed_ok |-> FALSE, error |-> error, matched_order |-> NoId,
   created_at |-> now, processed_at |-> now]

\* SignatureOk gone wrong: the comparison is skipped.
AnySignatureOk(received_sig, key, body) == TRUE

\* hmac.compare_digest(received_sig, expected_sig)
SignatureOk(received_sig, key, body) == received_sig = Hmac(key, body)

\* The order lookups of one event, in the order the handler tries them.
Sources(body) ==
  CASE body.event = "payment.captured"  -> <<"pay">>
    [] body.event = "payment_link.paid" -> <<"ref", "pay", "pl", "note">>
    [] OTHER                            -> <<>>

\* Order.objects.get(razorpay_order_id=rp); NoId for DoesNotExist, and for
\* the falsy ids that mark_paid_by_order_id refuses.
OrderByRp(rp) ==
  IF rp # None /\ \E o \in OrderIds : orders[o].razorpay_order_id = rp
  THEN CHOOSE o \in OrderIds : orders[o].razorpay_order_id = rp
  ELSE NoId

\* The order one source names, NoId when it names none.
FindOrder(source, body) ==
  CASE source = "ref" ->
         IF body.ref.prefix = "orderdb" /\ IntOf(body.ref.tail) \in OrderIds
         THEN IntOf(body.ref.tail) ELSE NoId
    [] source = "pay"  -> OrderByRp(body.pay_order)
    [] source = "pl"   -> OrderByRp(body.pl_order)
    [] source = "note" -> OrderByRp(body.note)

\* AlreadyConfirmed gone wrong: the status of the booking is not consulted.
NeverConfirmed(b) == FALSE

\* booking.status != "CONFIRMED" is what lets the allocator run.
AlreadyConfirmed(b) == b.status = "CONFIRMED"

\* NeedsMarking gone wrong: a paid order is marked again.
AlwaysNeedsMarking(o) == TRUE

\* `if not o.paid:` is what lets a notification write the order.
NeedsMarking(o) == ~o.paid

Receive(w) ==
  /\ wk[w].pc = "idle"
  /\ received < MaxDeliveries
  /\ received' = received + 1
  /\ \E rq \in traffic :
       LET me == [IdleWorker EXCEPT !.body = rq.body, !.sig = rq.sig]
           ev == IF rq.body.event = None THEN "" ELSE rq.body.event
       IN IF secret = None
          THEN /\ wk' = [wk EXCEPT ![w] = [me EXCEPT !.resp = 503]]
               /\ UNCHANGED log
          ELSE IF JsonLoadsRaises(rq.body)
          THEN /\ log' = Append(log, LogRow("__parse_error__", rq, <<"Invalid JSON">>, received'))
               /\ wk' = [wk EXCEPT ![w] = [me EXCEPT !.resp = 400, !.logid = Len(log')]]
          ELSE IF rq.body.kind # "object"
          THEN \* evt.get raises AttributeError outside every try
               /\ wk' = [wk EXCEPT ![w] = [me EXCEPT !.resp = 500]]
               /\ UNCHANGED log
          ELSE IF ~SignatureOk(rq.sig, secret, rq.body)
          THEN /\ log' = Append(log, LogRow(ev, rq, <<"invalid signature">>, received'))
               /\ wk' = [wk EXCEPT ![w] = [me EXCEPT !.resp = 400, !.logid = Len(log')]]
          ELSE /\ log' = Append(log, LogRow(ev, rq, <<>>, received'))
               /\ wk' = [wk EXCEPT ![w] =
                           [me EXCEPT !.logid = Len(log'),
                                      !.pc = IF Sources(rq.body) = <<>>
                                             THEN "finish" ELSE "resolve"]]
  /\ UNCHANGED <<secret, orders, bookings, allocations, unitStatus, traffic>>

\* Lookup gone wrong: an order that is already paid ends the handling.
LookupSkipsPaid(w) ==
  LET me   == wk[w]
      srcs == Sources(me.body)
      o    == FindOrder(srcs[me.src], me.body)
  IN /\ me.pc = "resolve"
     /\ IF o = NoId
        THEN wk' = [wk EXCEPT ![w].src = me.src + 1,
                              ![w].pc = IF me.src = Len(srcs) THEN "finish"
                                        ELSE "resolve"]
        ELSE wk' = [wk EXCEPT ![w].matched = o, ![w].osnap = orders[o],
                              ![w].pc = IF NeedsMarking(orders[o]) THEN "save"
                                        ELSE "finish"]
     /\ UNCHANGED <<secret, orders, bookings, allocations, unitStatus, log, received, traffic>>

\* One Order.objects.get of the dispatch.
Lookup(w) ==
  LET me   == wk[w]
      srcs == Sources(me.body)
      o    == FindOrder(srcs[me.src], me.body)
  IN /\ me.pc = "resolve"
     /\ IF o = NoId
        THEN wk' = [wk EXCEPT ![w].src = me.src + 1,
                              ![w].pc = IF me.src = Len(srcs) THEN "finish"
                                        ELSE "resolve"]
        ELSE wk' = [wk EXCEPT ![w].matched = o, ![w].osnap = orders[o],
                              ![w].pc = IF NeedsMarking(orders[o]) THEN "save"
                                        ELSE "post"]
     /\ UNCHANGED <<secret, orders, bookings, allocations, unitStatus, log, received, traffic>>

\* The save() that marks the matched order paid.  By reference_id it also
\* writes razorpay_order_id, which is unique: a clash raises, the handler
\* drops the match and goes on to the next source.
Save(w) ==
  LET me     == wk[w]
      o      == me.matched
      source == Sources(me.body)[me.src]
      pid    == IF me.body.pay_id # None THEN me.body.pay_id
                ELSE me.osnap.razorpay_payment_id
      rp     == IF source = "ref" /\ me.body.pl_order # None THEN me.body.pl_order
                ELSE me.osnap.razorpay_order_id
      clash  == \E o2 \in OrderIds \ {o} : orders[o2].razorpay_order_id = rp
  IN /\ me.pc = "save"
     /\ IF source = "ref" /\ clash
        THEN /\ wk' = [wk EXCEPT ![w].matched = NoId, ![w].src = me.src + 1,
                                 ![w].pc = "resolve"]
             /\ UNCHANGED orders
        ELSE /\ orders' = [orders EXCEPT
                             ![o].paid = TRUE,
                             ![o].razorpay_payment_id = pid,
                             ![o].razorpay_order_id = IF source = "ref" THEN rp ELSE @]
             /\ wk' = [wk EXCEPT ![w].pc = "post"]
     /\ UNCHANGED <<secret, bookings, allocations, unitStatus, log, received, traffic>>

\* matched.booking is read; unless it is CONFIRMED a missing pricing
\* snapshot is computed and saved.
Post(w) ==
  LET me == wk[w]
      bk == me.osnap.booking
  IN /\ me.pc = "post"
     /\ IF bk = NoId \/ AlreadyConfirmed(bookings[bk])
        THEN /\ wk' = [wk EXCEPT ![w].pc = "finish"]
             /\ UNCHANGED bookings
        ELSE LET cur == bookings[bk]
                 pr  == ComputeBookingPricing(me.osnap.package, cur)
                 b2  == IF cur.pricing_total_inr = NoPrice
                        THEN [cur EXCEPT !.pricing_total_inr = pr.total_inr,
                                         !.pricing_breakdown = pr.breakdown,
                                         !.guests = pr.guests_total]
                        ELSE cur
             IN /\ bookings' = [bookings EXCEPT ![bk] = b2]
                /\ wk' = [wk EXCEPT ![w].bk = bk, ![w].b = b2, ![w].pc = "begin"]
     /\ UNCHANGED <<secret, orders, allocations, unitStatus, log, received, traffic>>

\* MarkOccupied gone wrong: the picked units are not saved as OCCUPIED.
MarkNothing(picked) == unitStatus

\* MarkOccupied gone wrong: the first of the picked units is not saved.
MarkAllButOne(picked) ==
  [u \in UnitIds |->
     IF u \in picked /\ \E v \in picked : v < u THEN "OCCUPIED" ELSE unitStatus[u]]

\* u.status = "OCCUPIED"; u.save(update_fields=["status"]) for every pick.
MarkOccupied(picked) ==
  [u \in UnitIds |-> IF u \in picked THEN "OCCUPIED" ELSE unitStatus[u]]

AllocateErr(w, msg) ==
  wk' = [wk EXCEPT ![w].err = <<"allocate_err", msg>>, ![w].pc = "finish"]

\* allocate_units_for_booking up to the query of taken_ids.
Begin(w) ==
  LET me == wk[w]
  IN /\ me.pc = "begin"
     /\ IF me.b.event = NoId
        THEN AllocateErr(w, "Booking missing event")
        ELSE IF AllowedIds(me.osnap.package) = {}
        THEN AllocateErr(w, "Package has no allowed unit types configured")
        ELSE wk' = [wk EXCEPT ![w].taken = UnitsTakenForEvent(me.b.event),
                              ![w].pc = "lock"]
     /\ UNCHANGED <<secret, orders, bookings, allocations, unitStatus, log, received, traffic>>

\* Commit gone wrong: units are allocated as the fallback loop walks the
\* pool and stay allocated when the capacity check raises.
CommitWithoutRollback(w) ==
  LET me      == wk[w]
      allowed == AllowedIds(me.osnap.package)
      pool    == SortUnits(PoolUnits(me.b, allowed, me.taken), me.b.property)
      d       == Decide(me.b, pool, PinnedUt(me.b, allowed))
      walked  == {(IF d.ok THEN d.picks ELSE pool)[i] :
                    i \in 1..Len(IF d.ok THEN d.picks ELSE pool)}
  IN /\ me.pc = "lock"
     /\ allocations' = allocations \cup
           {[booking |-> me.bk, unit |-> u, seats |-> 0] : u \in walked}
     /\ unitStatus' = MarkOccupied(walked)
     /\ IF ~d.ok
        THEN /\ AllocateErr(w, "Insufficient capacity for requested guests")
             /\ UNCHANGED bookings
        ELSE /\ bookings' = [bookings EXCEPT ![me.bk].property = d.property,
                                             ![me.bk].unit_type = d.unit_type,
                                             ![me.bk].status = "CONFIRMED"]
             /\ wk' = [wk EXCEPT ![w].pool = pool, ![w].picks = d.picks,
                                 ![w].err = <<"allocated_units", d.picks>>,
                                 ![w].pc = "finish"]
     /\ UNCHANGED <<secret, orders, log, received, traffic>>

\* Commit gone wrong: the dates of the event are written over dates that
\* were both set.
CommitMirrorsAlways(w) ==
  LET me      == wk[w]
      allowed == AllowedIds(me.osnap.package)
      pool    == SortUnits(PoolUnits(me.b, allowed, me.taken), me.b.property)
      d       == Decide(me.b, pool, PinnedUt(me.b, allowed))
      picked  == {d.picks[i] : i \in 1..Len(d.picks)}
  IN /\ me.pc = "lock"
     /\ IF ~d.ok
        THEN /\ AllocateErr(w, "Insufficient capacity for requested guests")
             /\ UNCHANGED <<bookings, allocations, unitStatus>>
        ELSE IF \E a \in allocations : a.booking = me.bk /\ a.unit \in picked
        THEN /\ AllocateErr(w, "IntegrityError")
             /\ UNCHANGED <<bookings, allocations, unitStatus>>
        ELSE /\ allocations' = allocations \cup
                   {[booking |-> me.bk, unit |-> u, seats |-> 0] : u \in picked}
             /\ unitStatus' = MarkOccupied(picked)
             /\ bookings' = [bookings EXCEPT
                   ![me.bk].property = d.property,
                   ![me.bk].unit_type = d.unit_type,
                   ![me.bk].category = IF Unit[d.picks[1]].category # ""
                                       THEN Unit[d.picks[1]].category
                                       ELSE me.b.category,
                   ![me.bk].status = "CONFIRMED",
                   ![me.bk].check_in = Event[me.b.event].start_date,
                   ![me.bk].check_out = Event[me.b.event].end_date]
             /\ wk' = [wk EXCEPT ![w].pool = pool, ![w].picks = d.picks,
                                 ![w].err = <<"allocated_units", d.picks>>,
                                 ![w].pc = "finish"]
     /\ UNCHANGED <<secret, orders, log, received, traffic>>

\* Commit gone wrong: the status of the booking is not written.
CommitLeavesStatus(w) ==
  LET me      == wk[w]
      allowed == AllowedIds(me.osnap.package)
      pool    == SortUnits(PoolUnits(me.b, allowed, me.taken), me.b.property)
      d       == Decide(me.b, pool, PinnedUt(me.b, allowed))
      picked  == {d.picks[i] : i \in 1..Len(d.picks)}
  IN /\ me.pc = "lock"
     /\ IF ~d.ok
        THEN /\ AllocateErr(w, "Insufficient capacity for requested guests")
             /\ UNCHANGED <<bookings, allocations, unitStatus>>
        ELSE IF \E a \in allocations : a.booking = me.bk /\ a.unit \in picked
        THEN /\ AllocateErr(w, "IntegrityError")
             /\ UNCHANGED <<bookings, allocations, unitStatus>>
        ELSE /\ allocations' = allocations \cup
                   {[booking |-> me.bk, unit |-> u, seats |-> 0] : u \in picked}
             /\ unitStatus' = MarkOccupied(picked)
             /\ bookings' = [bookings EXCEPT
                   ![me.bk].property = d.property,
                   ![me.bk].unit_type = d.unit_type,
                   ![me.bk].category = IF Unit[d.picks[1]].category # ""
                                       THEN Unit[d.picks[1]].category
                                       ELSE me.b.category,
                   ![me.bk].check_in = Event[me.b.event].start_date,
                   ![me.bk].check_out = Event[me.b.event].end_date]
             /\ wk' = [wk EXCEPT ![w].pool = pool, ![w].picks = d.picks,
                                 ![w].err = <<"allocated_units", d.picks>>,
                                 ![w].pc = "finish"]
     /\ UNCHANGED <<secret, orders, log, received, traffic>>

\* The rest of the transaction: the locking query, the decision, the
\* inserts and updates, the commit.  The row locks make it one step for
\* every transaction that reads or writes one of the same units.
Commit(w) ==
  LET me      == wk[w]
      allowed == AllowedIds(me.osnap.package)
      pool    == SortUnits(PoolUnits(me.b, allowed, me.taken), me.b.property)
      d       == Decide(me.b, pool, PinnedUt(me.b, allowed))
      picked  == {d.picks[i] : i \in 1..Len(d.picks)}
      dated   == me.b.check_in # NoDate /\ me.b.check_out # NoDate
  IN /\ me.pc = "lock"
     /\ IF ~d.ok
        THEN /\ AllocateErr(w, "Insufficient capacity for requested guests")
             /\ UNCHANGED <<bookings, allocations, unitStatus>>
        ELSE IF \E a \in allocations : a.booking = me.bk /\ a.unit \in picked
        THEN \* unique_together (booking, unit)
             /\ AllocateErr(w, "IntegrityError")
             /\ UNCHANGED <<bookings, allocations, unitStatus>>
        ELSE /\ allocations' = allocations \cup
                   {[booking |-> me.bk, unit |-> u, seats |-> 0] : u \in picked}
             /\ unitStatus' = MarkOccupied(picked)
             /\ bookings' = [bookings EXCEPT
                   ![me.bk].property = d.property,
                   ![me.bk].unit_type = d.unit_type,
                   ![me.bk].category = IF Unit[d.picks[1]].category # ""
                                       THEN Unit[d.picks[1]].category
                                       ELSE me.b.category,
                   ![me.bk].status = "CONFIRMED",
                   ![me.bk].check_in = IF dated THEN me.b.check_in
                                       ELSE Event[me.b.event].start_date,
                   ![me.bk].check_out = IF dated THEN me.b.check_out
                                        ELSE Event[me.b.event].end_date]
             /\ wk' = [wk EXCEPT ![w].pool = pool, ![w].picks = d.picks,
                                 ![w].err = <<"allocated_units", d.picks>>,
                                 ![w].pc = "finish"]
     /\ UNCHANGED <<secret, orders, log, received, traffic>>

\* Finish gone wrong: a notification that matched no order is answered 404.
FinishRejectsUnmatched(w) ==
  LET me == wk[w]
  IN /\ me.pc = "finish"
     /\ log' = [log EXCEPT ![me.logid].matched_order = me.matched,
                           ![me.logid].processed_ok = me.matched # NoId,
                           ![me.logid].error = me.err,
                           ![me.logid].processed_at = received]
     /\ wk' = [wk EXCEPT ![w].pc = "idle",
                         ![w].resp = IF me.matched = NoId THEN 404 ELSE 200]
     /\ UNCHANGED <<secret, orders, bookings, allocations, unitStatus, received,
                    traffic>>

\* Finish gone wrong: an allocation error reaches the outer except, which
\* answers 500 and leaves the row not processed.
FinishUncaught(w) ==
  LET me     == wk[w]
      failed == me.err # <<>> /\ me.err[1] = "allocate_err"
  IN /\ me.pc = "finish"
     /\ log' = [log EXCEPT ![me.logid].matched_order = me.matched,
                           ![me.logid].processed_ok = ~failed,
                           ![me.logid].error = me.err,
                           ![me.logid].processed_at = received]
     /\ wk' = [wk EXCEPT ![w].pc = "idle",
                         ![w].resp = IF failed THEN 500 ELSE 200]
     /\ UNCHANGED <<secret, orders, bookings, allocations, unitStatus, received,
                    traffic>>

\* The "Success" block: the log row is completed and the request answered.
Finish(w) ==
  LET me == wk[w]
  IN /\ me.pc = "finish"
     /\ log' = [log EXCEPT ![me.logid].matched_order = me.matched,
                           ![me.logid].processed_ok = TRUE,
                           ![me.logid].error = me.err,
                           ![me.logid].processed_at = received]
     /\ wk' = [wk EXCEPT ![w].pc = "idle", ![w].resp = 200]
     /\ UNCHANGED <<secret, orders, bookings, allocations, unitStatus, received, traffic>>

Next ==
  \E w \in Workers :
    \/ Receive(w)
    \/ Lookup(w)
    \/ Save(w)
    \/ Post(w)
    \/ Begin(w)
    \/ Commit(w)
    \/ Finish(w)

Spec == Init /\ [][Next]_vars

(***************************************************************************)
(* The webhook next to the admin API.  BulkActionMixin.bulk_action with    *)
(* action "update" runs one queryset.update with the payload on the rows   *)
(* named by ids.  Two payloads are modelled: {"status": "CANCELLED"} on a  *)
(* Booking, and {"status": "AVAILABLE"} on a Unit that is under            *)
(* MAINTENANCE and has never been allocated.  The update touches no other  *)
(* column and no other                                                     *)
(* table.                                                                  *)
(***************************************************************************)

\* Initial databases: a first booking of two or of three guests, a third
\* booking of one guest in the other or in the same event, and unit 1 (two
\* seats) as the only unit in service.
AdminScenarios ==
  { [party |-> BookingRow(1, 2, <<30>>, 130, 10, 12),
     booking |-> BookingRow(2, 1, <<>>, 100, 20, 23)],
    [party |-> BookingRow(1, 2, <<30>>, 130, 10, 12),
     booking |-> BookingRow(1, 1, <<>>, 100, 10, 12)],
    [party |-> BookingRow(1, 3, <<30, 10>>, 145, 10, 12),
     booking |-> BookingRow(2, 1, <<>>, 100, 20, 23)] }

\* Units the admin can put into service.
SpareUnits == {3}

AdminInit ==
  /\ secret = "whsec"
  /\ traffic = InventoryTraffic
  /\ \E sc \in AdminScenarios :
       /\ bookings = <<sc.party,
                       BookingRow(1, 2, <<>>, NoPrice, NoDate, NoDate),
                       sc.booking>>
       /\ orders = <<OrderRow("rp1", 1, 1), OrderRow("rp2", 2, 1),
                     OrderRow("rp3", 3, 1)>>
  /\ unitStatus = [u \in UnitIds |-> IF u = 1 THEN "AVAILABLE" ELSE "MAINTENANCE"]
  /\ allocations = {}
  /\ log = <<>>
  /\ received = 0
  /\ wk = [w \in Workers |-> IdleWorker]

\* BulkCancelBooking gone wrong: the units of the booking are put back into
\* service.
CancelFreesUnits(b) ==
  /\ bookings[b].status # "CANCELLED"
  /\ bookings' = [bookings EXCEPT ![b].status = "CANCELLED"]
  /\ unitStatus' = [u \in UnitIds |->
                      IF \E a \in allocations : a.booking = b /\ a.unit = u
                      THEN "AVAILABLE" ELSE unitStatus[u]]
  /\ UNCHANGED <<secret, orders, allocations, log, received, wk, traffic>>

\* POST bookings/bulk/ {"ids": [b], "action": "update",
\*                      "payload": {"status": "CANCELLED"}}
BulkCancelBooking(b) ==
  /\ bookings[b].status # "CANCELLED"
  /\ bookings' = [bookings EXCEPT ![b].status = "CANCELLED"]
  /\ UNCHANGED <<secret, orders, allocations, unitStatus, log, received, wk, traffic>>

\* POST units/bulk/ {"ids": [u], "action": "update",
\*                   "payload": {"status": "AVAILABLE"}}
BulkReleaseUnit(u) ==
  /\ unitStatus[u] = "MAINTENANCE"
  /\ \A a \in allocations : a.unit # u
  /\ unitStatus' = [unitStatus EXCEPT ![u] = "AVAILABLE"]
  /\ UNCHANGED <<secret, orders, bookings, allocations, log, received, wk, traffic>>

AdminNext ==
  \/ Next
  \/ \E b \in {1, 3} : BulkCancelBooking(b)
  \/ \E u \in SpareUnits : BulkReleaseUnit(u)

AdminSpec == AdminInit /\ [][AdminNext]_vars

(***************************************************************************)
(* create_order and validate_promocode, the callers of                     *)
(* _compute_booking_pricing and _apply_promocode, over one booking.  The   *)
(* requests of a behaviour name one package and one promo code; wk holds   *)
(* the locals and the status of the last request.                          *)
(***************************************************************************)
MaxCompanions == 2

\* Ages as the party gives them: none, a free child, a half-price child, an
\* adult.
Ages == {0 - 1, 3, 10, 30}

AgeLists == UNION {[1..k -> Ages] : k \in 0..MaxCompanions}

\* The bookings a quote is asked for: a party given by its companions, by
\* the ages of its extra guests, or by counts of extras.
Parties ==
  { BookingRow(1, 1, c, NoPrice, NoDate, NoDate) : c \in AgeLists \ {<<>>} }
  \cup
  { [BookingRow(1, 1, <<>>, NoPrice, NoDate, NoDate)
       EXCEPT !.guest_ages = a] : a \in AgeLists \ {<<>>} }
  \cup
  { [BookingRow(1, g, <<>>, NoPrice, NoDate, NoDate)
       EXCEPT !.extra_adults = x[1], !.extra_children_half = x[2],
              !.extra_children_free = x[3]] :
      g \in {1, 4}, x \in (0..1) \X (0..1) \X (0..1) }

\* A party without extras, one of an adult and a child, one of four, and
\* one of a small child, a child of ten and an adult besides the primary
\* guest.
FewParties ==
  { BookingRow(1, 1, <<>>, NoPrice, NoDate, NoDate),
    BookingRow(1, 1, <<30, 10>>, NoPrice, NoDate, NoDate),
    [BookingRow(1, 4, <<>>, NoPrice, NoDate, NoDate) EXCEPT !.extra_adults = 1],
    BookingRow(1, 4, <<3, 10, 30>>, NoPrice, NoDate, NoDate) }

\* The requests that name package pkg and promo code `code`.  rp is what
\* the payment provider does with the order: it creates it, it refuses it,
\* or its client is not configured.
QuoteRequests(pkg, code) ==
  { [op |-> "create_order", package |-> pkg, with_booking |-> wb,
     code |-> c, rp |-> "ok"] : wb \in BOOLEAN, c \in {code, NoId} }
  \cup
  { [op |-> "create_order", package |-> pkg, with_booking |-> TRUE,
     code |-> code, rp |-> rp] : rp \in {"refused", "no_client"} }
  \cup
  { [op |-> "validate_promocode", code |-> code, base |-> base,
     package |-> pkg, amount_inr |-> amt] :
      base \in {"amount"}, amt \in {0, 250} }
  \cup
  { [op |-> "validate_promocode", code |-> code, base |-> base,
     package |-> pkg, amount_inr |-> 0] :
      base \in {"booking", "package", "none"} }
  \cup
  { [op |-> "validate_promocode", code |-> NoId, base |-> "package",
     package |-> pkg, amount_inr |-> 0] }

QuoteIdle ==
  [op |-> "none", status |-> 0, package |-> NoId, priced |-> FALSE,
   total_inr |-> 0, applied |-> FALSE, promo |-> NoId, discount |-> 0,
   final |-> 0, amount_paise |-> 0]

QuoteInit ==
  /\ secret = "whsec"
  /\ \E pkg \in PackageIds :
       \/ /\ traffic = QuoteRequests(pkg, 4)
          /\ \E b \in Parties : bookings = <<b>>
       \/ /\ \E code \in PromoIds : traffic = QuoteRequests(pkg, code)
          /\ \E b \in FewParties : bookings = <<b>>
  /\ orders = <<>>
  /\ unitStatus = [u \in UnitIds |-> IF u \in {1, 3} THEN "AVAILABLE"
                                     ELSE "MAINTENANCE"]
  /\ allocations = {}
  /\ log = <<>>
  /\ received = 0
  /\ wk = QuoteIdle

\* The Order row create_order inserts: no booking, the amount in paise.
NewOrder(rp, package, amount) ==
  [razorpay_order_id |-> rp, razorpay_payment_id |-> None, paid |-> FALSE,
   booking |-> NoId, package |-> package, amount |-> amount]

\* The ids the payment provider gives to the orders it creates.
ProviderOrderId(n) == <<"rpQ", n>>

\* BookingSnapshot gone wrong: the guests of the quote are added to those
\* of the booking.
BookingSnapshotAddsGuests(b, pr, ap, promo) ==
  [b EXCEPT
     !.pricing_total_inr = ap.final,
     !.pricing_breakdown = IF promo # NoId
                           THEN [pr.breakdown EXCEPT !.promo = ap.breakdown]
                           ELSE pr.breakdown,
     !.guests = b.guests + pr.guests_total,
     !.promo_discount_inr = ap.discount,
     !.promo_breakdown = ap.breakdown,
     !.promo_code = IF promo # NoId /\ @ = NoId THEN promo ELSE @]

\* The booking row create_order saves: the quote pr, the promo result ap
\* and the promo code, unless the booking has one.
BookingSnapshot(b, pr, ap, promo) ==
  [b EXCEPT
     !.pricing_total_inr = ap.final,
     !.pricing_breakdown = IF promo # NoId
                           THEN [pr.breakdown EXCEPT !.promo = ap.breakdown]
                           ELSE pr.breakdown,
     !.guests = pr.guests_total,
     !.promo_discount_inr = ap.discount,
     !.promo_breakdown = ap.breakdown,
     !.promo_code = IF promo # NoId /\ @ = NoId THEN promo ELSE @]

CreateOrder ==
  \E rq \in traffic :
    LET b       == bookings[1]
        pkg     == rq.package
        pr      == IF rq.with_booking THEN ComputeBookingPricing(pkg, b)
                   ELSE [total_inr |-> Package[pkg].price_inr,
                         guests_total |-> b.guests, breakdown |-> NoBreakdown]
        allowed == AllowedIds(pkg)
        free    == {u \in UnitIds : /\ Unit[u].unit_type \in allowed
                                    /\ unitStatus[u] = "AVAILABLE"
                                    /\ u \notin UnitsTakenForEvent(b.event)}
        prechecked == rq.with_booking /\ b.event # NoId
        promo   == IF rq.with_booking /\ b.promo_code # NoId THEN b.promo_code
                   ELSE GetLivePromocode(rq.code)
        ap      == ApplyPromocode(pr.total_inr, promo)
        b2      == BookingSnapshot(b, pr, ap, promo)
        amount  == Max(1, ap.final) * 100
        me      == [QuoteIdle EXCEPT !.op = "create_order", !.package = pkg,
                                     !.priced = rq.with_booking,
                                     !.total_inr = pr.total_inr]
        quoted  == [me EXCEPT !.applied = TRUE, !.promo = promo,
                              !.discount = ap.discount, !.final = ap.final,
                              !.amount_paise = amount]
    IN /\ rq.op = "create_order"
       /\ received < MaxDeliveries
       /\ received' = received + 1
       /\ IF prechecked /\ allowed = {}
          THEN /\ wk' = [me EXCEPT !.status = 400]
               /\ UNCHANGED <<bookings, orders>>
          ELSE IF prechecked /\ SumCap(SortUnits(free, NoId)) < Needed(b)
          THEN /\ wk' = [me EXCEPT !.status = 409]
               /\ UNCHANGED <<bookings, orders>>
          ELSE /\ bookings' = IF rq.with_booking THEN <<b2>> ELSE bookings
               /\ CASE rq.rp = "no_client" ->
                         wk' = [quoted EXCEPT !.status = 503] /\ UNCHANGED orders
                    [] rq.rp = "refused" ->
                         wk' = [quoted EXCEPT !.status = 502] /\ UNCHANGED orders
                    [] OTHER ->
                         /\ orders' = Append(orders,
                               NewOrder(ProviderOrderId(Len(orders) + 1), pkg, amount))
                         /\ wk' = [quoted EXCEPT !.status = 200]
       /\ UNCHANGED <<secret, allocations, unitStatus, log, traffic>>

ValidatePromocode ==
  \E rq \in traffic :
    LET promo == GetLivePromocode(rq.code)
        me    == [QuoteIdle EXCEPT !.op = "validate_promocode",
                                   !.package = rq.package, !.promo = promo]
        base_inr == IF rq.base = "amount" THEN Max(1, rq.amount_inr)
                    ELSE Package[rq.package].price_inr
        ap    == ApplyPromocode(base_inr, promo)
    IN /\ rq.op = "validate_promocode"
       /\ received < MaxDeliveries
       /\ received' = received + 1
       /\ wk' = IF rq.code = NoId THEN [me EXCEPT !.status = 400]
                ELSE IF promo = NoId THEN [me EXCEPT !.status = 200]
                ELSE IF rq.base = "booking"
                THEN \* booking.order_id raises AttributeError
                     [me EXCEPT !.status = 400]
                ELSE IF rq.base = "none" THEN [me EXCEPT !.status = 200]
                ELSE [me EXCEPT !.status = 200, !.total_inr = base_inr,
                                !.applied = TRUE, !.discount = ap.discount,
                                !.final = ap.final]
       /\ UNCHANGED <<secret, orders, bookings, allocations, unitStatus, log, traffic>>

QuoteNext == CreateOrder \/ ValidatePromocode

QuoteSpec == QuoteInit /\ [][QuoteNext]_vars

(***************************************************************************)
(* Properties.                                                             *)
(***************************************************************************)

\* Allocation.seats_used(): seats or (unit.capacity or 1)
SeatsUsed(a) == IF a.seats # 0 THEN a.seats ELSE Cap(a.unit)

RECURSIVE SumSeats(_)
SumSeats(S) ==
  IF S = {} THEN 0
  ELSE LET a == CHOOSE x \in S : TRUE IN SeatsUsed(a) + SumSeats(S \ {a})

\* The allocations of unit u that belong to CONFIRMED or PENDING_PAYMENT
\* bookings of event e.
HeldAllocations(u, e) ==
  {a \in allocations :
     /\ a.unit = u
     /\ bookings[a.booking].event = e
     /\ bookings[a.booking].status \in {"CONFIRMED", "PENDING_PAYMENT"}}

\* C1: in every reachable state, for every unit and every event, the seats
\* used by the unit's allocations of CONFIRMED or PENDING_PAYMENT bookings of
\* the event sum to at most the unit's capacity (seats = 0 counts as the
\* whole unit).
CapacityRespected ==
  \A u \in UnitIds, e \in EventIds :
    SumSeats(HeldAllocations(u, e)) <= Unit[u].capacity

\* Two bookings of one event hold different units, each used to capacity.
CapacityRespectedWitness ==
  \E a1, a2 \in allocations :
    /\ a1.booking # a2.booking
    /\ bookings[a1.booking].event = bookings[a2.booking].event
    /\ SumSeats(HeldAllocations(a1.unit, bookings[a1.booking].event))
         = Unit[a1.unit].capacity
    /\ SumSeats(HeldAllocations(a2.unit, bookings[a2.booking].event))
         = Unit[a2.unit].capacity

\* C2: no unit carries allocations of two different bookings of the same
\* event, however the allocation transactions of the workers interleave.
NoUnitSharedWithinEvent ==
  \A a1, a2 \in allocations :
    (a1.unit = a2.unit /\ bookings[a1.booking].event = bookings[a2.booking].event)
      => a1.booking = a2.booking

\* A worker has committed picks although another booking of the same event
\* was allocated a unit between the worker's read of taken_ids and its
\* locking query: the unit is of an allowed type and missing from both the
\* worker's taken_ids and its pool.
NoUnitSharedWitness ==
  \E w \in Workers : \E a \in allocations :
    /\ wk[w].picks # <<>>
    /\ a.booking # wk[w].bk
    /\ bookings[a.booking].event = wk[w].b.event
    /\ Unit[a.unit].unit_type \in AllowedIds(wk[w].osnap.package)
    /\ a.unit \notin wk[w].taken
    /\ \A i \in 1..Len(wk[w].pool) : wk[w].pool[i] # a.unit

\* C3: two workers that handled the same notification for the same booking
\* have not both committed allocations for it.
OneAllocationPerNotification ==
  \A w1, w2 \in Workers :
    (/\ w1 # w2
     /\ wk[w1].body = wk[w2].body
     /\ wk[w1].sig = wk[w2].sig
     /\ wk[w1].bk # NoId
     /\ wk[w1].bk = wk[w2].bk)
      => ~(wk[w1].picks # <<>> /\ wk[w2].picks # <<>>)

\* The log rows of earlier handlings of the request worker w handles that
\* had finished, with units allocated, before this request arrived.
EarlierAllocated(w) ==
  {i \in 1..Len(log) :
     /\ wk[w].logid # NoId
     /\ i # wk[w].logid
     /\ log[i].raw_body = log[wk[w].logid].raw_body
     /\ log[i].signature = log[wk[w].logid].signature
     /\ log[i].processed_ok
     /\ log[i].error # <<>>
     /\ log[i].error[1] = "allocated_units"
     /\ log[i].processed_at < log[wk[w].logid].created_at}

AllocationFailed(err) == err # <<>> /\ err[1] = "allocate_err"

\* C6: when the allocator has raised in a handling, the matched Order is
\* paid and stays paid, and once the request is answered the answer is 200
\* and the notification's log row carries the error, processed.
FailureKeepsPayment ==
  /\ \A w \in Workers :
       AllocationFailed(wk[w].err) =>
         /\ orders[wk[w].matched].paid
         /\ wk[w].pc \in {"finish", "idle"}
         /\ wk[w].pc = "idle" =>
              /\ wk[w].resp = 200
              /\ log[wk[w].logid].error = wk[w].err
              /\ log[wk[w].logid].processed_ok
              /\ log[wk[w].logid].matched_order = wk[w].matched
  /\ \A i \in 1..Len(log) :
       AllocationFailed(log[i].error) => orders[log[i].matched_order].paid

FailureKeepsPaymentWitness ==
  \E w \in Workers :
    /\ AllocationFailed(wk[w].err)
    /\ wk[w].pc = "idle"
    /\ wk[w].resp = 200

\* C7: the step in which allocate_units_for_booking fails leaves the
\* Allocation rows, the Unit statuses and the Booking rows as they were.
FailedAllocationWritesNothing ==
  [][\A w \in Workers :
       (wk'[w].err # wk[w].err /\ AllocationFailed(wk'[w].err)) =>
         /\ allocations' = allocations
         /\ unitStatus' = unitStatus
         /\ bookings' = bookings]_vars

\* The allocator failed for lack of capacity while units of an allowed type
\* were still free.
FailedAllocationWitness ==
  \E w \in Workers :
    /\ wk[w].err = <<"allocate_err", "Insufficient capacity for requested guests">>
    /\ PoolUnits(wk[w].b, AllowedIds(wk[w].osnap.package), wk[w].taken) # {}

EveryRequestLogged ==
  \A w \in Workers :
    wk[w].body.kind # "none" =>
      /\ wk[w].logid # NoId
      /\ log[wk[w].logid].raw_body = wk[w].body
      /\ log[wk[w].logid].signature = wk[w].sig
      /\ wk[w].body.event # None => log[wk[w].logid].event = wk[w].body.event

\* The order named by the first source of the body that names a local
\* order, NoId when no source does.
FirstMatch(body) ==
  LET srcs == Sources(body)
      ks   == {k \in 1..Len(srcs) : FindOrder(srcs[k], body) # NoId}
  IN IF ks = {} THEN NoId
     ELSE FindOrder(srcs[CHOOSE k \in ks : \A j \in ks : k <= j], body)

\* C10: the Order that a payment_link.paid notification marks paid is the
\* one named by the first of reference_id, payment order_id, payment link
\* order_id and notes.local_rp_order that names a local Order.
MarkedByFirstMatch ==
  [][\A w \in Workers : \A o \in OrderIds :
       (/\ wk[w].pc = "save"
        /\ wk[w].body.event = "payment_link.paid"
        /\ wk[w].matched = o
        /\ wk'[w].pc = "post"
        /\ ~orders[o].paid
        /\ orders'[o].paid) =>
         o = FirstMatch(wk[w].body)]_vars

\* Worker w holds an authentic payment.captured notification.
AuthenticCaptured(w) ==
  /\ secret # None
  /\ wk[w].body.kind = "object"
  /\ wk[w].body.event = "payment.captured"
  /\ wk[w].sig = Hmac(secret, wk[w].body)

\* The order id of w's notification is the razorpay_order_id of no Order.
NamesNoOrder(w) ==
  \A o \in OrderIds : orders[o].razorpay_order_id # wk[w].body.pay_order

\* C11: an authentic payment.captured notification has its log row from
\* the moment it is received; when its order id is the razorpay_order_id of
\* no Order at the handler's lookup, the lookup matches nothing, and every
\* step of a handling that matched nothing leaves Orders, Bookings,
\* Allocations and Unit statuses unchanged and ends answered 200 with the
\* row processed, no matched order and no error.
UnmatchedAcknowledged ==
  [][\A w \in Workers :
       (wk'[w] # wk[w] /\ AuthenticCaptured(w)') =>
         /\ wk'[w].logid # NoId
         /\ log'[wk'[w].logid].raw_body = wk'[w].body
         /\ (wk[w].pc = "resolve" /\ NamesNoOrder(w)) =>
              wk'[w].matched = NoId /\ wk'[w].pc = "finish"
         /\ wk'[w].matched = NoId =>
              /\ UNCHANGED <<orders, bookings, allocations, unitStatus>>
              /\ wk'[w].pc \in {"resolve", "finish", "idle"}
              /\ wk'[w].pc = "idle" =>
                   /\ wk'[w].resp = 200
                   /\ log'[wk'[w].logid].processed_ok
                   /\ log'[wk'[w].logid].matched_order = NoId
                   /\ log'[wk'[w].logid].error = <<>>]_vars

\* A notification for the unknown order id rpX was answered 200.
UnmatchedAcknowledgedWitness ==
  \E w \in Workers :
    /\ AuthenticCaptured(w)
    /\ NamesNoOrder(w)
    /\ wk[w].matched = NoId
    /\ wk[w].pc = "idle"
    /\ wk[w].resp = 200
    /\ log[wk[w].logid].processed_ok

\* The Allocation rows of booking b.
AllocationsOf(b) == {a \in allocations : a.booking = b}

\* C12: Allocation rows are created for a Booking only when an Order linked
\* to it is paid; the allocator is never entered or committed for a Booking
\* whose stored status is CONFIRMED; and a Booking that has Allocation rows
\* never receives further ones.
AllocatedOnceAfterPayment ==
  [][/\ \A b \in BookingIds :
          AllocationsOf(b)' # AllocationsOf(b) =>
            /\ \E o \in OrderIds : orders[o].booking = b /\ orders[o].paid
            /\ bookings[b].status # "CONFIRMED"
            /\ AllocationsOf(b) = {}
     /\ \A w \in Workers :
          (wk[w].pc \in {"begin", "lock"} /\ wk'[w] # wk[w]) =>
            bookings[wk[w].bk].status # "CONFIRMED"]_vars

\* The status changes of a Booking that the state diagram allows.
AllowedStatusChanges ==
  { <<"PENDING_PAYMENT", "PARTIAL">>, <<"PENDING_PAYMENT", "CONFIRMED">>,
    <<"PENDING_PAYMENT", "CANCELLED">>, <<"PARTIAL", "CONFIRMED">> }

\* C13: a Booking's status changes only along PENDING_PAYMENT -> PARTIAL,
\* PENDING_PAYMENT -> CONFIRMED, PENDING_PAYMENT -> CANCELLED and
\* PARTIAL -> CONFIRMED, and no step creates Allocation rows for a Booking
\* whose status is CANCELLED.
StatusFollowsDiagram ==
  [][\A b \in BookingIds :
       /\ bookings'[b].status # bookings[b].status =>
            <<bookings[b].status, bookings'[b].status>> \in AllowedStatusChanges
       /\ bookings[b].status = "CANCELLED" =>
            AllocationsOf(b)' = AllocationsOf(b)]_vars

\* The units that are free for the booking of worker w: in service and
\* AVAILABLE, of a type its package allows, held by no booking of its event.
EligibleUnits(w) ==
  {u \in UnitIds : /\ unitStatus[u] = "AVAILABLE"
                   /\ Unit[u].unit_type \in AllowedIds(wk[w].osnap.package)
                   /\ u \notin UnitsTakenForEvent(wk[w].b.event)}

\* The gender classes of the party of booking row b.
GenderClasses(b) == {b.genders[i] : i \in DOMAIN b.genders}

\* C14: when no eligible Unit has capacity for the whole party and the
\* party is of one gender class, the allocator fails and writes nothing,
\* whatever the aggregate free capacity: with two free Units of capacity 4
\* and a party of 5 of one gender, allocation fails.
GenderSplitFails ==
  [][\A w \in Workers :
       ( /\ wk[w].pc = "lock"
         /\ wk'[w] # wk[w]
         /\ Cardinality(GenderClasses(wk[w].b)) = 1
         /\ \A u \in EligibleUnits(w) : Cap(u) < Needed(wk[w].b) ) =>
         /\ AllocationFailed(wk'[w].err)
         /\ UNCHANGED <<allocations, unitStatus, bookings>>]_vars

\* C15: every Allocation row is created by the allocator of a worker that
\* handles that booking, for a Unit whose UnitType is in the allowed set of
\* the order's Package and which, in the state the row is created from, no
\* Allocation of a PENDING_PAYMENT or CONFIRMED Booking of the same Event
\* holds.
AssignedUnitsEligible ==
  [][\A a \in allocations' \ allocations :
       \E w \in Workers :
         /\ wk[w].pc = "lock"
         /\ wk'[w].pc = "finish"
         /\ wk[w].bk = a.booking
         /\ Unit[a.unit].unit_type \in AllowedIds(wk[w].osnap.package)
         /\ a.unit \notin UnitsTakenForEvent(bookings[a.booking].event)]_vars

\* A worker allocated for a package that excludes the type of a unit still
\* AVAILABLE, while another booking of the same event holds a unit.
AssignedUnitsEligibleWitness ==
  \E w \in Workers :
    /\ wk[w].picks # <<>>
    /\ \E u \in UnitIds :
         /\ unitStatus[u] = "AVAILABLE"
         /\ Unit[u].unit_type \notin AllowedIds(wk[w].osnap.package)
    /\ \E a \in allocations :
         /\ a.booking # wk[w].bk
         /\ bookings[a.booking].event = bookings[wk[w].bk].event

\* C16: when a Booking has a Property or a UnitType set before allocation,
\* every Allocation row created for it is for a Unit of that Property and
\* of that UnitType.
PinsAreHard ==
  [][\A a \in allocations' \ allocations :
       LET b == bookings[a.booking]
       IN /\ b.property # NoId => Unit[a.unit].property = b.property
          /\ b.unit_type # NoId => Unit[a.unit].unit_type = b.unit_type]_vars

\* The seats of a set of units.
RECURSIVE SeatsOf(_)
SeatsOf(T) ==
  IF T = {} THEN 0
  ELSE LET u == CHOOSE x \in T : TRUE IN Cap(u) + SeatsOf(T \ {u})

\* The sets of eligible units of worker w that seat its party.
ValidUnitSets(w) ==
  {T \in SUBSET EligibleUnits(w) : SeatsOf(T) >= Needed(wk[w].b)}

\* C17: when the allocator succeeds, no set of eligible free Units that
\* seats the party has fewer Units than the set it allocates.
AllocationMinimal ==
  [][\A w \in Workers :
       (wk[w].pc = "lock" /\ allocations' # allocations /\ wk'[w] # wk[w]) =>
         \A T \in ValidUnitSets(w) :
           Cardinality(allocations' \ allocations) <= Cardinality(T)]_vars

\* The eligible units of worker w under the unit type its booking names,
\* when the package allows that type.
PinnedEligibleUnits(w) ==
  {u \in EligibleUnits(w) :
     wk[w].b.unit_type \in AllowedIds(wk[w].osnap.package) =>
       Unit[u].unit_type = wk[w].b.unit_type}

\* Some (Property, UnitType) cluster of the eligible units of worker w
\* seats its party.
SomeClusterSuffices(w) ==
  \E v \in PinnedEligibleUnits(w) :
    SeatsOf({u \in PinnedEligibleUnits(w) : ClusterOf(u) = ClusterOf(v)})
      >= Needed(wk[w].b)

PartyCounts(b, free_max, half_max) ==
  LET ages == IF b.companions # <<>> THEN b.companions ELSE b.guest_ages
      n(lo, hi) == Cardinality({i \in DOMAIN ages : ages[i] >= lo /\ ages[i] <= hi})
  IN [adult |-> (IF b.companions # <<>> THEN 1 ELSE 0)
                + n(0 - 1, 0 - 1) + n(half_max + 1, 120),
      half  |-> n(free_max + 1, half_max),
      free  |-> n(0, free_max)]

\* The people the base price of a package covers: base_includes, one if 0.
BaseIncludes(pkg) ==
  IF Package[pkg].base_includes # 0 THEN Package[pkg].base_includes ELSE 1

\* The extras a package charges for booking row b: with companions, the
\* party beyond the seats of the base price, which go to adults first, then
\* to half-price children; with guest_ages, everyone listed; else the
\* counts of the booking.
ChargedExtras(pkg, b) ==
  LET P == Package[pkg]
      c == PartyCounts(b, P.child_free_max_age, P.child_half_max_age)
  IN IF b.companions # <<>>
     THEN [adult |-> Max(0, c.adult - BaseIncludes(pkg)),
           half  |-> Max(0, c.half - Max(0, BaseIncludes(pkg) - c.adult))]
     ELSE IF b.guest_ages # <<>>
     THEN [adult |-> c.adult, half |-> c.half]
     ELSE [adult |-> b.extra_adults, half |-> b.extra_children_half]

\* The price of an extra adult: extra_price_adult_inr, the base price if 0.
ExtraAdultPrice(pkg) ==
  IF Package[pkg].extra_price_adult_inr # 0
  THEN Package[pkg].extra_price_adult_inr ELSE Package[pkg].price_inr

\* h is the half price: the extra adult price times the multiplier, to the
\* nearest integer.
IsHalfPrice(h, pkg) ==
  100 * h - ExtraAdultPrice(pkg) * Package[pkg].half_percent \in (0 - 50)..50

\* The integers that can be the half price of a package: those next to the
\* hundredth of the extra adult price times the multiplier.
HalfPriceRange(pkg) ==
  LET q == (ExtraAdultPrice(pkg) * Package[pkg].half_percent) \div 100
  IN (q - 1)..(q + 1)

\* The total of the last request is the base price plus the charged extras
\* at their unit prices, for a half price h.
TotalIsBasePlusExtras(h) ==
  LET x == ChargedExtras(wk.package, bookings[1])
  IN /\ IsHalfPrice(h, wk.package)
     /\ wk.total_inr = Package[wk.package].price_inr
                       + x.adult * ExtraAdultPrice(wk.package) + x.half * h

\* C18 as stated: every total _compute_booking_pricing returns is the base
\* price plus extra adults at the extra adult price plus extra half-price
\* children at the half price, and is at least the base price.
TotalAtLeastBase ==
  (wk.op = "create_order" /\ wk.priced) =>
    /\ \E h \in HalfPriceRange(wk.package) : TotalIsBasePlusExtras(h)
    /\ wk.total_inr >= Package[wk.package].price_inr

\* C18, amended: the total is the base price plus the extras exactly for
\* every package and party, and it is at least the base price for every
\* package whose extra adult price and half price are not negative.
TotalExactAndAtLeastBase ==
  (wk.op = "create_order" /\ wk.priced) =>
    /\ \E h \in HalfPriceRange(wk.package) : TotalIsBasePlusExtras(h)
    /\ (\E h \in HalfPriceRange(wk.package) :
          h >= 0 /\ IsHalfPrice(h, wk.package) /\ ExtraAdultPrice(wk.package) >= 0)
         => wk.total_inr >= Package[wk.package].price_inr

\* A quote for a party with a free child, an extra adult and an extra
\* half-price child, above the base price.
TotalExactWitness ==
  /\ wk.op = "create_order"
  /\ wk.priced
  /\ wk.status = 200
  /\ wk.total_inr > Package[wk.package].price_inr
  /\ bookings[1].pricing_breakdown.adult >= 1
  /\ bookings[1].pricing_breakdown.child_half >= 1
  /\ bookings[1].pricing_breakdown.child_free >= 1

\* _apply_promocode was called with a promo code in the last request.
PromoApplied == wk.applied /\ wk.promo # NoId

DatesMirrored(old, new) ==
  /\ (old.check_in # NoDate /\ old.check_out # NoDate) =>
       (new.check_in = old.check_in /\ new.check_out = old.check_out)
  /\ (old.check_in = NoDate \/ old.check_out = NoDate) =>
       /\ new.check_in = Event[old.event].start_date
       /\ new.check_out = Event[old.event].end_date

SeatsToDearestFirst ==
  LET b  == bookings[1]
      bd == b.pricing_breakdown
      P  == Package[wk.package]
      c  == PartyCounts(b, P.child_free_max_age, P.child_half_max_age)
      n  == BaseIncludes(wk.package)
  IN (/\ wk.op = "create_order"
      /\ wk.priced
      /\ wk.status \notin {400, 409}
      /\ b.companions # <<>>) =>
       /\ bd.computed_from = "companions"
       /\ bd.adult = Max(0, c.adult - n)
       /\ bd.child_half = Max(0, c.half - Max(0, n - c.adult))
       /\ bd.child_free = Max(0, c.free - Max(0, n - c.adult - c.half))
       /\ 1 + Len(b.companions) <= n =>
            /\ bd.adult = 0 /\ bd.child_half = 0 /\ bd.child_free = 0
            /\ wk.total_inr = P.price_inr
       /\ (P.name = "Family" /\ b.companions = <<3, 10, 30>>) =>
            /\ bd.adult = 0 /\ bd.child_half = 1 /\ bd.child_free = 1
            /\ wk.total_inr = 11500

\* The family package was quoted for companions aged 3, 10 and 30.
SeatsToDearestFirstWitness ==
  /\ wk.op = "create_order"
  /\ wk.priced
  /\ wk.status = 200
  /\ Package[wk.package].base_includes = 2
  /\ Package[wk.package].price_inr = 10000
  /\ Package[wk.package].extra_price_adult_inr = 3000
  /\ bookings[1].companions = <<3, 10, 30>>
  /\ bookings[1].pricing_breakdown.child_half = 1
  /\ wk.total_inr = 11500

\* The last request was a create_order that saved its quote to the booking.
QuoteSaved == wk.op = "create_order" /\ wk.priced /\ wk.status \notin {400, 409}

\* C23: a create_order that prices the Booking again, after a create_order
\* that saved its quote, with the same package, party and promo code,
\* computes the same total and leaves the saved total, breakdown, guest
\* count and promo fields of the Booking as they are.
RepricingChangesNothing ==
  [][(/\ QuoteSaved
      /\ received' # received
      /\ wk'.op = "create_order"
      /\ wk'.priced
      /\ wk'.applied => wk'.promo = wk.promo) =>
       /\ wk'.total_inr = wk.total_inr
       /\ wk'.applied => (wk'.discount = wk.discount /\ wk'.final = wk.final)
       /\ bookings'[1].pricing_total_inr = bookings[1].pricing_total_inr
       /\ bookings'[1].pricing_breakdown = bookings[1].pricing_breakdown
       /\ bookings'[1].guests = bookings[1].guests
       /\ bookings' = bookings]_vars

\* Two orders were created at the same amount for a booking with charged
\* extras and a promo code.
RepricingWitness ==
  /\ QuoteSaved
  /\ wk.status = 200
  /\ Len(orders) = 2
  /\ orders[1].amount = orders[2].amount
  /\ orders[2].amount = 100 * bookings[1].pricing_total_inr
  /\ wk.promo # NoId
  /\ wk.discount > 0
  /\ wk.total_inr > Package[wk.package].price_inr

(***************************************************************************)
(* Properties of the allocations over time.                                *)
(***************************************************************************)

\* C24: no step creates an Allocation row for a Booking of an Event whose
\* booking_open is false.
ClosedEventGetsNothing ==
  [][\A a \in allocations' \ allocations :
       Event[bookings[a.booking].event].booking_open]_vars

\* C25: for a Package whose promo_active flag is off, create_order applies
\* no discount, charges the undiscounted total and records no promo
\* discount on the Booking.
PromoOffChargesFull ==
  (wk.op = "create_order" /\ wk.applied /\ ~Package[wk.package].promo_active) =>
    /\ wk.discount = 0
    /\ wk.final = wk.total_inr
    /\ wk.amount_paise = 100 * Max(1, wk.total_inr)
    /\ wk.priced => /\ bookings[1].promo_discount_inr = 0
                    /\ bookings[1].pricing_total_inr = wk.total_inr

\* C26: a Booking in PENDING_PAYMENT has no Allocation rows, before and
\* after every step, and every step that creates Allocation rows for a
\* Booking leaves that Booking CONFIRMED.
PendingHoldsNothing ==
  [][\A b \in BookingIds :
       /\ bookings[b].status = "PENDING_PAYMENT" => AllocationsOf(b) = {}
       /\ bookings'[b].status = "PENDING_PAYMENT" => AllocationsOf(b)' = {}
       /\ AllocationsOf(b)' # AllocationsOf(b) =>
            bookings'[b].status = "CONFIRMED"]_vars

\* One booking is CONFIRMED with its units while another, whose payment
\* arrived and whose allocation failed, is PENDING_PAYMENT with none.
PendingHoldsNothingWitness ==
  \E w \in Workers : \E b \in BookingIds :
    /\ AllocationFailed(wk[w].err)
    /\ wk[w].pc = "idle"
    /\ bookings[wk[w].bk].status = "PENDING_PAYMENT"
    /\ AllocationsOf(wk[w].bk) = {}
    /\ b # wk[w].bk
    /\ bookings[b].status = "CONFIRMED"
    /\ AllocationsOf(b) # {}

\* C27: in every state that a transaction can observe, a Unit has an
\* Allocation row exactly if its status is OCCUPIED: the rows and the
\* status change of an allocation become visible together.
AllocatedIffOccupied ==
  \A u \in UnitIds :
    (\E a \in allocations : a.unit = u) <=> unitStatus[u] = "OCCUPIED"

\* A worker is inside its allocation transaction, between its read of the
\* taken units and its locking query, while another booking holds several
\* units, all OCCUPIED.
AllocatedIffOccupiedWitness ==
  \E w \in Workers : \E a1, a2 \in allocations :
    /\ wk[w].pc = "lock"
    /\ a1.booking = a2.booking
    /\ a1.unit # a2.unit
    /\ a1.booking # wk[w].bk
    /\ unitStatus[a1.unit] = "OCCUPIED"
    /\ unitStatus[a2.unit] = "OCCUPIED"

\* C29: the step in which the allocator sets a Booking CONFIRMED creates
\* at least one Allocation row for it, and the capacities of the Units of
\* the rows it creates sum to at least max(1, guests), for the guests the
\* allocator read and for the guests stored.
ConfirmedSeatsParty ==
  [][\A w \in Workers :
       (wk[w].pc = "lock" /\ wk'[w] # wk[w] /\ ~AllocationFailed(wk'[w].err)) =>
         LET new == allocations' \ allocations
         IN /\ bookings'[wk[w].bk].status = "CONFIRMED"
            /\ new # {}
            /\ \A a \in new : a.booking = wk[w].bk
            /\ SeatsOf({a.unit : a \in new}) >= Needed(wk[w].b)
            /\ SeatsOf({a.unit : a \in new}) >= Needed(bookings'[wk[w].bk])]_vars

\* A party of four was confirmed on several units that seat it together
\* and of which none seats it alone.
ConfirmedSeatsPartyWitness ==
  \E w \in Workers :
    /\ Len(wk[w].picks) >= 2
    /\ bookings[wk[w].bk].status = "CONFIRMED"
    /\ Needed(wk[w].b) >= 4
    /\ SumCap(wk[w].picks) >= Needed(wk[w].b)
    /\ \A i \in DOMAIN wk[w].picks : Cap(wk[w].picks[i]) < Needed(wk[w].b)
    /\ \A i \in DOMAIN wk[w].picks :
         [booking |-> wk[w].bk, unit |-> wk[w].picks[i], seats |-> 0] \in allocations

EarlierStarved(w) ==
  {i \in 1..Len(log) :
     /\ wk[w].logid # NoId
     /\ i # wk[w].logid
     /\ log[i].raw_body = log[wk[w].logid].raw_body
     /\ log[i].signature = log[wk[w].logid].signature
     /\ log[i].processed_ok
     /\ log[i].matched_order # NoId
     /\ log[i].error = <<"allocate_err", "Insufficient capacity for requested guests">>
     /\ log[i].processed_at < log[wk[w].logid].created_at}

\* C30: the step in which the allocator fails for lack of capacity finds
\* the Order paid and changes no Booking, Allocation or Unit, so a Booking
\* without Allocations stays without them and not CONFIRMED.  A later
\* handling of the same notification finds the same Order, goes on past the
\* paid Order without writing it, enters the allocator unless the Booking
\* has been CONFIRMED meanwhile, and, when the AVAILABLE units of the
\* allowed types that the Event has not taken seat the party, creates
\* Allocation rows that seat it and sets the Booking CONFIRMED.
RetryAllocates ==
  [][\A w \in Workers :
       /\ (/\ wk'[w].err # wk[w].err
           /\ wk'[w].err = <<"allocate_err", "Insufficient capacity for requested guests">>) =>
            /\ orders[wk[w].matched].paid
            /\ bookings' = bookings
            /\ allocations' = allocations
            /\ unitStatus' = unitStatus
            /\ (\A a \in allocations : a.booking # wk[w].bk) =>
                  bookings'[wk[w].bk].status # "CONFIRMED"
       /\ \A i \in EarlierStarved(w) :
            LET o  == log[i].matched_order
                bk == orders[o].booking
            IN /\ orders[o].paid
               /\ (wk[w].pc = "resolve" /\ wk'[w] # wk[w]) =>
                     /\ wk'[w].matched = o
                     /\ wk'[w].pc = "post"
                     /\ orders' = orders
               /\ (/\ wk[w].pc = "post" /\ wk'[w] # wk[w]
                   /\ bookings[bk].status # "CONFIRMED") =>
                     /\ wk'[w].pc = "begin"
                     /\ wk'[w].bk = bk
               /\ (/\ wk[w].pc = "begin" /\ wk'[w] # wk[w]
                   /\ wk[w].b.event # NoId
                   /\ AllowedIds(wk[w].osnap.package) # {}) =>
                     wk'[w].pc = "lock"
               /\ (/\ wk[w].pc = "lock" /\ wk'[w] # wk[w]
                   /\ SeatsOf(PinnedEligibleUnits(w)) >= Needed(wk[w].b)) =>
                     LET new == allocations' \ allocations
                     IN /\ new # {}
                        /\ \A a \in new : a.booking = bk
                        /\ SeatsOf({a.unit : a \in new}) >= Needed(wk[w].b)
                        /\ bookings'[bk].status = "CONFIRMED"
                        /\ orders' = orders]_vars

\* The first handling of a notification found no unit for its party and
\* left the Booking without Allocations; a unit was put into service; the
\* second handling of the notification has been answered, the Booking is
\* CONFIRMED on that unit and the Order is as the first handling left it.
RetryAllocatesWitness ==
  \E w \in Workers : \E i \in EarlierStarved(w) :
    LET o  == log[i].matched_order
        bk == orders[o].booking
    IN /\ wk[w].pc = "idle"
       /\ wk[w].resp = 200
       /\ wk[w].matched = o
       /\ wk[w].osnap.paid
       /\ orders[o] = wk[w].osnap
       /\ wk[w].picks # <<>>
       /\ bookings[bk].status = "CONFIRMED"
       /\ \A j \in DOMAIN wk[w].picks :
            /\ wk[w].picks[j] \in SpareUnits
            /\ [booking |-> bk, unit |-> wk[w].picks[j], seats |-> 0] \in allocations
       /\ \A a \in allocations :
            a.booking = bk => \E j \in DOMAIN wk[w].picks : a.unit = wk[w].picks[j]

====
